---- MODULE Spec2Model ----
(***************************************************************************)
(* A model of the unify logic-programming runtime (src/unify/core.py and   *)
(* src/pyunify/predicates.py).                                             *)
(*                                                                         *)
(* Every goal of the runtime is a Python generator.  A generator object is *)
(* modelled as a frame in the heap `gens`: its function, its arguments,    *)
(* its resumption point `pc` and its locals.  `Resume(m, id)` is one call  *)
(* of next() on generator `id`: it runs the generator's body from its      *)
(* resumption point to the next `yield` (y = TRUE) or to its end           *)
(* (y = FALSE, StopIteration), threading the engine state m through the    *)
(* nested next() calls the body makes.  None of the generators modelled    *)
(* here has a try/finally or catches GeneratorExit, so closing or dropping *)
(* a suspended generator runs no code of its body.                         *)
(***************************************************************************)
EXTENDS Integers, Sequences, FiniteSets, TLC

VARIABLES
    binding,       \* Var._binding of every live Var: id -> term (None = unbound)
    Var_counter,   \* Var._counter
    gens,          \* the generator objects of the query in progress
    no_backtrack,  \* _local.no_backtrack of the calling thread
    pc,            \* position of the client: "idle", "iterating" or "done"
    top,           \* the run(...) generator the client iterates, 0 if none
    sols,          \* the Solutions the client received from `top`
    query,         \* history: the client operation in progress or just completed
    nq             \* history: number of client operations started

vars == <<binding, Var_counter, gens, no_backtrack, pc, top, sols, query, nq>>

----------------------------------------------------------------------------
(* Bounds *)

MaxVal == 2       \* scalars 1..MaxVal appear in the generated goals
MaxQueries == 2   \* client operations per behaviour
MaxVars == 4      \* an operation is started only while Var._counter <= MaxVars

----------------------------------------------------------------------------
(* Terms *)

None == [k |-> "none", v |-> 0]
IntT(n) == [k |-> "int", v |-> n]
BoolT(n) == [k |-> "bool", v |-> n]
VarT(id) == [k |-> "var", v |-> id]
ListT(s) == [k |-> "list", v |-> s]
TupleT(s) == [k |-> "tuple", v |-> s]
DictT(s) == [k |-> "dict", v |-> s]

isVar(t) == t.k = "var"

is_bound(bnd, id) == bnd[id].k # "none"

RECURSIVE deref(_, _)
deref(bnd, id) ==
    IF ~is_bound(bnd, id) THEN VarT(id)
    ELSE LET val == bnd[id]
         IN  IF isVar(val) THEN deref(bnd, val.v) ELSE val

\* `t.deref() if isinstance(t, Var) else t`
Value(bnd, t) == IF isVar(t) THEN deref(bnd, t.v) ELSE t

isNum(t) == t.k \in {"int", "bool"}

\* the argument expression `v.value`, and the evaluation of an argument
\* expression at the moment the call it belongs to is evaluated
ValueOf(v) == [k |-> "value", v |-> v.v]
EvalTerm(bnd, t) == IF t.k = "value" THEN deref(bnd, t.v) ELSE t

\* Python's == on host values.  A Var has no __eq__, so it is equal only to
\* itself; bool is a subclass of int, so True == 1 and False == 0.
RECURSIVE PyEq(_, _), PyEq_ordered(_, _)

\* a lookup that ignores the key and returns the first entry
DictGet_first(d, key) ==
    IF d.v = <<>> THEN <<>> ELSE <<d.v[1][2]>>

DictGet(d, key) ==
    LET hits == {j \in 1..Len(d.v) : PyEq(d.v[j][1], key)}
    IN  IF hits = {} THEN <<>> ELSE <<d.v[CHOOSE j \in hits : TRUE][2]>>
\* an equality that treats numbers as equal when the left one is smaller
PyEq_ordered(s, t) ==
    CASE isNum(s) /\ isNum(t) -> s.v <= t.v
      [] s.k # t.k -> FALSE
      [] s.k \in {"var", "none", "str"} -> s.v = t.v
      [] s.k \in {"list", "tuple"} ->
            /\ Len(s.v) = Len(t.v)
            /\ \A j \in 1..Len(s.v) : PyEq_ordered(s.v[j], t.v[j])
      [] OTHER -> FALSE

PyEq(s, t) ==
    CASE isNum(s) /\ isNum(t) -> s.v = t.v
      [] s.k # t.k -> FALSE
      [] s.k \in {"var", "none", "str"} -> s.v = t.v
      [] s.k \in {"list", "tuple"} ->
            /\ Len(s.v) = Len(t.v)
            /\ \A j \in 1..Len(s.v) : PyEq(s.v[j], t.v[j])
      [] s.k = "dict" ->
            /\ Len(s.v) = Len(t.v)
            /\ \A j \in 1..Len(s.v) :
                  LET hit == DictGet(t, s.v[j][1])
                  IN  hit # <<>> /\ PyEq(s.v[j][2], hit[1])
      [] OTHER -> FALSE

\* an identity test that never recognises a Var
PyIs_never(s, t) ==
    CASE s.k # t.k -> FALSE
      [] s.k \in {"none", "str", "int", "bool"} -> s.v = t.v
      [] OTHER -> FALSE

\* Python's `is` on two dereferenced values.  Two Vars are identical iff they
\* are the same object; for other values identity implies ==, and unify takes
\* the same path (a plain yield) for `is` and for ==, so identity of non-Var
\* values is decided by == on scalars and left FALSE for containers.
PyIs(s, t) ==
    CASE s.k # t.k -> FALSE
      [] s.k \in {"var", "none", "str", "int", "bool"} -> s.v = t.v
      [] OTHER -> FALSE

----------------------------------------------------------------------------
(* Generator objects *)

Frame(fn) ==
    [fn |-> fn, pc |-> "start", a |-> None, b |-> None, pairs |-> <<>>,
     goals |-> <<>>, sub |-> 0, inner |-> 0, i |-> 0, var |-> 0,
     old |-> None, nb |-> FALSE, c |-> None]

\* the engine state threaded through a chain of next() calls
Engine(g, bnd, c, nb) == [gens |-> g, binding |-> bnd, counter |-> c, nb |-> nb]

NewGen(m, f) == [m |-> [m EXCEPT !.gens = Append(@, f)], id |-> Len(m.gens) + 1]

SetPc(m, id, p) == [m EXCEPT !.gens[id].pc = p]

Yield(m) == [m |-> m, y |-> TRUE]
Return(m, id) == [m |-> SetPc(m, id, "done"), y |-> FALSE]

\* an exception leaves the body of generator `id`: next() raises it, and
\* the generator is finished
Raise(m, id) == [m |-> SetPc(m, id, "done"), y |-> FALSE, exc |-> TRUE]
Raised(r) == "exc" \in DOMAIN r

\* Var(): a fresh unbound Var with id Var._counter
NewVar(m) ==
    [m |-> [m EXCEPT !.binding = (m.counter :> None) @@ @, !.counter = @ + 1],
     id |-> m.counter]

----------------------------------------------------------------------------
(* Goal expressions: the Python expressions a client writes.  Calling a    *)
(* generator function only creates the generator object; a lambda defers   *)
(* the call.                                                               *)

Lam(e) == [form |-> "lam", e |-> e]       \* lambda: e
Call(e) == [form |-> "call", e |-> e]     \* e, evaluated where it is written
Gen(id) == [form |-> "gen", id |-> id]    \* the generator object a call made

E_unify(a, b) == [fn |-> "unify", a |-> a, b |-> b]
E_unify_all(pairs) == [fn |-> "unify_all", pairs |-> pairs]
E_member(item, lst) == [fn |-> "member", a |-> item, b |-> lst]
E_not_unifiable(a, b) == [fn |-> "not_unifiable", a |-> a, b |-> b]
E_different(a, b) == [fn |-> "different", a |-> a, b |-> b]
E_append(xs, ys, result) == [fn |-> "append", a |-> xs, b |-> ys, c |-> result]
E_between(low, high, x) == [fn |-> "between", a |-> low, b |-> high, c |-> x]
E_commit_then(inner, rest) == [fn |-> "commit_then", args |-> <<inner, rest>>]
E_AND(args) == [fn |-> "AND", args |-> args]
E_OR(args) == [fn |-> "OR", args |-> args]
E_ONCE(arg) == [fn |-> "ONCE", args |-> <<arg>>]
E_succeed == [fn |-> "succeed"]
E_fail == [fn |-> "fail"]
E_test_unify(x) == [fn |-> "test_unify", a |-> x]
E_test_compose(x, y) == [fn |-> "test_compose", a |-> x, b |-> y]
E_test_compose_or(x, y) == [fn |-> "test_compose_or", a |-> x, b |-> y]

hasArgs(e) == e.fn \in {"AND", "OR", "ONCE", "commit_then"}

RECURSIVE Construct(_, _), EvalArgs(_, _, _), EvalArgs_eager(_, _, _)

\* an evaluation that calls every callable argument on the spot
EvalArgs_eager(m, args, acc) ==
    IF args = <<>> THEN [m |-> m, goals |-> acc]
    ELSE LET n == Construct(m, Head(args).e)
         IN  EvalArgs_eager(n.m, Tail(args), Append(acc, Gen(n.id)))

\* evaluate the argument expressions of a call, left to right
EvalArgs(m, args, acc) ==
    IF args = <<>> THEN [m |-> m, goals |-> acc]
    ELSE IF Head(args).form = "call"
         THEN LET n == Construct(m, Head(args).e)
              IN  EvalArgs(n.m, Tail(args), Append(acc, Gen(n.id)))
         ELSE EvalArgs(m, Tail(args), Append(acc, Head(args)))

\* evaluate a call of a generator function: a new, unstarted generator
Construct(m, e) ==
    IF hasArgs(e)
    THEN LET ev == EvalArgs(m, e.args, <<>>)
         IN  NewGen(ev.m, [Frame(e.fn) EXCEPT !.goals = ev.goals])
    ELSE IF e.fn = "unify_all"
    THEN NewGen(m, [Frame(e.fn) EXCEPT !.pairs = e.pairs])
    ELSE IF e.fn \in {"succeed", "fail"}
    THEN NewGen(m, Frame(e.fn))
    ELSE IF e.fn = "test_unify"
    THEN NewGen(m, [Frame(e.fn) EXCEPT !.a = e.a])
    ELSE IF e.fn \in {"append", "between"}
    THEN NewGen(m, [Frame(e.fn) EXCEPT !.a = e.a, !.b = e.b, !.c = e.c])
    ELSE NewGen(m, [Frame(e.fn) EXCEPT !.a = EvalTerm(m.binding, e.a),
                                       !.b = EvalTerm(m.binding, e.b)])

\* `gen = goal() if callable(goal) else goal`
Invoke(m, goal) ==
    IF goal.form = "lam" THEN Construct(m, goal.e) ELSE [m |-> m, id |-> goal.id]

----------------------------------------------------------------------------
(* gen.close(), also what the interpreter does to a suspended generator    *)
(* that is dropped: GeneratorExit is raised at the yield where the         *)
(* generator is suspended.  A generator suspended in `yield from` closes   *)
(* the inner generator first; unwinding a frame drops the generator its    *)
(* for loop iterates.  No generator function of the runtime catches the    *)
(* exception or has a finally block, so the statements after a `yield` -   *)
(* the restore of unify among them - are not executed.                     *)

RECURSIVE GenClose(_, _), GenClose_restoring(_, _)

\* a close that runs the pending restore of every suspended unify, whatever
\* the commit flag was when that unify started
GenClose_restoring(m, id) ==
    LET f == m.gens[id]
        suspended == f.pc \notin {"start", "done"}
        m1 == IF suspended /\ f.inner # 0 THEN GenClose_restoring(m, f.inner) ELSE m
        m2 == IF suspended /\ f.sub # 0 THEN GenClose_restoring(m1, f.sub) ELSE m1
        m3 == IF f.fn = "unify" /\ f.pc = "bound"
              THEN [m2 EXCEPT !.binding[f.var] = f.old] ELSE m2
    IN  SetPc(m3, id, "done")

GenClose(m, id) ==
    LET f == m.gens[id]
        suspended == f.pc \notin {"start", "done"}
        m1 == IF suspended /\ f.inner # 0 THEN GenClose(m, f.inner) ELSE m
        m2 == IF suspended /\ f.sub # 0 THEN GenClose(m1, f.sub) ELSE m1
    IN  SetPc(m2, id, "done")

----------------------------------------------------------------------------
(* The generator functions *)

RECURSIVE Resume(_, _), YieldFrom(_, _, _), ForLoop(_, _, _)
RECURSIVE unify(_, _), unify_all(_, _), AND(_, _), OR(_, _), ONCE(_, _)
RECURSIVE member(_, _), not_unifiable(_, _), different(_, _), append(_, _)
RECURSIVE between(_, _), commit_then(_, _), once_call(_, _), once_call_reset(_, _)
RECURSIVE once_try(_, _), once_finally(_, _, _), commit_rest(_, _, _), YieldFromNew(_, _)
RECURSIVE test_unify(_, _), test_compose(_, _), test_compose_or(_, _)
RECURSIVE AND_first_only(_, _), unify_all_twice(_, _), not_unifiable_blind(_, _)

\* `yield from sub` as the last statement of generator `id`
YieldFrom(m, id, sub) ==
    LET r == Resume([m EXCEPT !.gens[id].pc = "from", !.gens[id].sub = sub], sub)
    IN  IF r.y THEN Yield(r.m) ELSE Return(r.m, id)

\* `for _ in sub: yield from <body>` as the last statement of generator
\* `id`; body is the frame of the generator the loop body creates
ForLoop(m, id, body) ==
    LET f == m.gens[id]
    IN  IF f.inner # 0
        THEN LET r == Resume(m, f.inner)
             IN  IF r.y THEN Yield(r.m)
                 ELSE ForLoop([r.m EXCEPT !.gens[id].inner = 0], id, body)
        ELSE LET r == Resume(m, f.sub)
             IN  IF r.y
                 THEN LET n == NewGen(r.m, body)
                      IN  ForLoop([n.m EXCEPT !.gens[id].inner = n.id], id, body)
                 ELSE Return(r.m, id)

\* a bind that saves the new binding in place of the prior one
Bind_forgetful(m, id, v, t, nb) ==
    Yield([m EXCEPT !.binding[v] = t,
                    !.gens[id].pc = "bound", !.gens[id].var = v,
                    !.gens[id].old = t, !.gens[id].nb = nb])

\* a_val._binding = b_val; yield
Bind(m, id, v, t, nb) ==
    Yield([m EXCEPT !.binding[v] = t,
                    !.gens[id].pc = "bound", !.gens[id].var = v,
                    !.gens[id].old = m.binding[v], !.gens[id].nb = nb])

Zip(s, t) == [j \in 1..Len(s) |-> <<s[j], t[j]>>]

unify(m, id) ==
    LET f == m.gens[id]
    IN  CASE f.pc = "start" ->
               LET nb == m.nb
                   a_val == Value(m.binding, f.a)
                   b_val == Value(m.binding, f.b)
               IN  IF PyIs(a_val, b_val) THEN Yield(SetPc(m, id, "yielded"))
                   ELSE IF isVar(a_val) THEN Bind(m, id, a_val.v, b_val, nb)
                   ELSE IF isVar(b_val) THEN Bind(m, id, b_val.v, a_val, nb)
                   ELSE IF PyEq(a_val, b_val) THEN Yield(SetPc(m, id, "yielded"))
                   ELSE IF (a_val.k = "list" /\ b_val.k = "list")
                           \/ (a_val.k = "tuple" /\ b_val.k = "tuple")
                   THEN IF Len(a_val.v) # Len(b_val.v) THEN Return(m, id)
                        ELSE LET n == Construct(m, E_unify_all(Zip(a_val.v, b_val.v)))
                             IN  YieldFrom(n.m, id, n.id)
                   ELSE IF a_val.k = "dict" /\ b_val.k = "dict"
                   THEN IF \E j \in 1..Len(a_val.v) : DictGet(b_val, a_val.v[j][1]) = <<>>
                        THEN Return(m, id)
                        ELSE LET pairs == [j \in 1..Len(a_val.v) |->
                                             <<a_val.v[j][2], DictGet(b_val, a_val.v[j][1])[1]>>]
                                 n == Construct(m, E_unify_all(pairs))
                             IN  YieldFrom(n.m, id, n.id)
                   ELSE Return(m, id)
          [] f.pc = "bound" ->
               Return([m EXCEPT !.binding[f.var] = IF f.nb THEN @ ELSE f.old], id)
          [] f.pc = "from" -> YieldFrom(m, id, f.sub)
          [] OTHER -> Return(m, id)

\* a unify_all whose base case signals success twice
unify_all_twice(m, id) ==
    LET f == m.gens[id]
    IN  CASE f.pc = "start" ->
               IF f.pairs = <<>> THEN Yield(SetPc(m, id, "yielded"))
               ELSE LET a == Head(f.pairs)[1]
                        b == Head(f.pairs)[2]
                        n == Construct(m, E_unify(a, b))
                    IN  ForLoop([n.m EXCEPT !.gens[id].pc = "loop", !.gens[id].sub = n.id],
                                id, [Frame("unify_all") EXCEPT !.pairs = Tail(f.pairs)])
          [] f.pc = "loop" ->
               ForLoop(m, id, [Frame("unify_all") EXCEPT !.pairs = Tail(f.pairs)])
          [] f.pc = "yielded" -> Yield(SetPc(m, id, "again"))
          [] OTHER -> Return(m, id)

unify_all(m, id) ==
    LET f == m.gens[id]
    IN  CASE f.pc = "start" ->
               IF f.pairs = <<>> THEN Yield(SetPc(m, id, "yielded"))
               ELSE LET a == Head(f.pairs)[1]
                        b == Head(f.pairs)[2]
                        n == Construct(m, E_unify(a, b))
                    IN  ForLoop([n.m EXCEPT !.gens[id].pc = "loop", !.gens[id].sub = n.id],
                                id, [Frame("unify_all") EXCEPT !.pairs = Tail(f.pairs)])
          [] f.pc = "loop" ->
               ForLoop(m, id, [Frame("unify_all") EXCEPT !.pairs = Tail(f.pairs)])
          [] OTHER -> Return(m, id)

\* an AND that never resumes its first goal for a second success
AND_first_only(m, id) ==
    LET f == m.gens[id]
    IN  CASE f.pc = "start" ->
               IF f.goals = <<>> THEN Yield(SetPc(m, id, "yielded"))
               ELSE LET n == Invoke(m, Head(f.goals))
                        r == Resume([n.m EXCEPT !.gens[id].sub = n.id], n.id)
                        b == NewGen(r.m, [Frame("AND") EXCEPT !.goals = Tail(f.goals)])
                    IN  IF r.y THEN YieldFrom([b.m EXCEPT !.gens[id].inner = b.id], id, b.id)
                        ELSE Return(r.m, id)
          [] f.pc = "from" -> YieldFrom(m, id, f.sub)
          [] OTHER -> Return(m, id)

AND(m, id) ==
    LET f == m.gens[id]
    IN  CASE f.pc = "start" ->
               IF f.goals = <<>> THEN Yield(SetPc(m, id, "yielded"))
               ELSE LET n == Invoke(m, Head(f.goals))
                    IN  ForLoop([n.m EXCEPT !.gens[id].pc = "loop", !.gens[id].sub = n.id],
                                id, [Frame("AND") EXCEPT !.goals = Tail(f.goals)])
          [] f.pc = "loop" ->
               ForLoop(m, id, [Frame("AND") EXCEPT !.goals = Tail(f.goals)])
          [] OTHER -> Return(m, id)

\* f.i = number of goals already exhausted; f.sub = the goal being drained
OR(m, id) ==
    LET f == m.gens[id]
    IN  IF f.sub # 0
        THEN LET r == Resume(m, f.sub)
             IN  IF r.y THEN Yield(r.m)
                 ELSE OR([r.m EXCEPT !.gens[id].sub = 0, !.gens[id].i = @ + 1], id)
        ELSE IF f.i >= Len(f.goals) THEN Return(m, id)
        ELSE LET n == Invoke(m, f.goals[f.i + 1])
             IN  OR([n.m EXCEPT !.gens[id].pc = "loop", !.gens[id].sub = n.id], id)

ONCE(m, id) ==
    LET f == m.gens[id]
    IN  IF f.pc = "start"
        THEN LET n == Invoke(m, f.goals[1])
                 r == Resume([n.m EXCEPT !.gens[id].sub = n.id], n.id)
             IN  IF r.y THEN Yield(SetPc(r.m, id, "yielded")) ELSE Return(r.m, id)
        ELSE Return(GenClose(m, f.sub), id)

succeed(m, id) ==
    IF m.gens[id].pc = "start" THEN Yield(SetPc(m, id, "yielded")) ELSE Return(m, id)

fail(m, id) == Return(m, id)

\* f.b = lst_val once started; f.i = number of elements already tried
member(m, id) ==
    LET f == m.gens[id]
    IN  IF f.pc = "start"
        THEN LET lst_val == Value(m.binding, f.b)
             IN  IF lst_val.k # "list" THEN Return(m, id)
                 ELSE member([m EXCEPT !.gens[id].pc = "loop", !.gens[id].b = lst_val], id)
        ELSE IF f.sub # 0
        THEN LET r == Resume(m, f.sub)
             IN  IF r.y THEN Yield(r.m)
                 ELSE member([r.m EXCEPT !.gens[id].sub = 0, !.gens[id].i = @ + 1], id)
        ELSE IF f.i >= Len(f.b.v) THEN Return(m, id)
        ELSE LET n == Construct(m, E_unify(f.a, f.b.v[f.i + 1]))
             IN  member([n.m EXCEPT !.gens[id].sub = n.id], id)

\* a not_unifiable that succeeds whatever the probe did
not_unifiable_blind(m, id) ==
    LET f == m.gens[id]
    IN  IF f.pc = "start"
        THEN LET n == Construct(m, E_unify(f.a, f.b))
                 r == Resume([n.m EXCEPT !.gens[id].sub = n.id], n.id)
             IN  Yield(SetPc(GenClose(r.m, n.id), id, "yielded"))
        ELSE Return(m, id)

not_unifiable(m, id) ==
    LET f == m.gens[id]
    IN  IF f.pc = "start"
        THEN LET n == Construct(m, E_unify(f.a, f.b))
                 r == Resume([n.m EXCEPT !.gens[id].sub = n.id], n.id)
             IN  IF r.y THEN Return(GenClose(r.m, n.id), id)
                 ELSE Yield(SetPc(r.m, id, "yielded"))
        ELSE Return(m, id)

different(m, id) ==
    LET f == m.gens[id]
    IN  IF f.pc = "start"
        THEN LET n == Construct(m, E_not_unifiable(f.a, f.b))
             IN  YieldFrom(n.m, id, n.id)
        ELSE YieldFrom(m, id, f.sub)

ListOf123 == ListT(<<IntT(1), IntT(2), IntT(3)>>)

test_unify(m, id) ==
    LET f == m.gens[id]
    IN  IF f.pc = "start"
        THEN LET q == NewVar(m)
                 n == Construct(q.m, E_AND(<<Lam(E_member(VarT(q.id), ListOf123)),
                                            Lam(E_unify(VarT(q.id), f.a))>>))
             IN  YieldFrom(n.m, id, n.id)
        ELSE YieldFrom(m, id, f.sub)

test_compose(m, id) ==
    LET f == m.gens[id]
    IN  IF f.pc = "start"
        THEN LET n == Construct(m, E_AND(<<Lam(E_test_unify(f.a)), Lam(E_test_unify(f.b))>>))
             IN  YieldFrom(n.m, id, n.id)
        ELSE YieldFrom(m, id, f.sub)

test_compose_or(m, id) ==
    LET f == m.gens[id]
    IN  IF f.pc = "start"
        THEN LET n == Construct(m, E_OR(<<Lam(E_test_unify(f.a)), Lam(E_test_unify(f.b))>>))
             IN  YieldFrom(n.m, id, n.id)
        ELSE YieldFrom(m, id, f.sub)

\* f.a = xs, f.b = ys, f.c = result; in the recursive case f.var = z_tail
\* and f.a = tail
append_enter(id, n) ==
    append([n.m EXCEPT !.gens[id].pc = "base", !.gens[id].sub = n.id], id)

\* yield from unify(ys, result): one step of the base case's loop body
append_body(id, r) ==
    IF r.y THEN Yield(r.m)
    ELSE append([r.m EXCEPT !.gens[id].inner = 0], id)

append_body_enter(id, n) == append([n.m EXCEPT !.gens[id].inner = n.id], id)

\* for _ in unify(result, [head] + [z_tail]): yield from append(tail, ys, z_tail)
append_loop(id, f, tail, z_tail, n) ==
    ForLoop([n.m EXCEPT !.gens[id].pc = "rec", !.gens[id].sub = n.id,
                        !.gens[id].var = z_tail, !.gens[id].a = tail],
            id, [Frame("append") EXCEPT !.a = tail, !.b = f.b, !.c = VarT(z_tail)])

\* head = xs_val[0]; tail = xs_val[1:]; z_tail = Var()
append_cons(id, f, xs_val, z_tail) ==
    append_loop(id, f, ListT(Tail(xs_val.v)), z_tail.id,
                Construct(z_tail.m,
                          E_unify(f.c, ListT(<<Head(xs_val.v)>> \o <<VarT(z_tail.id)>>))))

\* xs_val = xs.value; if isinstance(xs_val, list) and xs_val: ...
append_recursive(m, id, f, xs_val) ==
    IF xs_val.k = "list" /\ xs_val.v # <<>>
    THEN append_cons(id, f, xs_val, NewVar(m))
    ELSE Return(m, id)

\* for _ in unify(xs, []): ...; then the recursive case
append_base(id, f, r) ==
    IF r.y THEN append_body_enter(id, Construct(r.m, E_unify(f.b, f.c)))
    ELSE append_recursive(r.m, id, f, Value(r.m.binding, f.a))

append(m, id) ==
    LET f == m.gens[id]
    IN  CASE f.pc = "start" ->
               append_enter(id, Construct(m, E_unify(f.a, ListT(<<>>))))
          [] f.pc = "base" ->
               IF f.inner # 0
               THEN append_body(id, Resume(m, f.inner))
               ELSE append_base(id, f, Resume(m, f.sub))
          [] f.pc = "rec" ->
               ForLoop(m, id, [Frame("append") EXCEPT !.a = f.a, !.b = f.b,
                                                      !.c = VarT(f.var)])
          [] OTHER -> Return(m, id)

\* f.a = low, f.b = high, f.c = x; f.i = number of integers already tried.
\* range(low, high + 1) raises TypeError unless low and high are integers.
between(m, id) ==
    LET f == m.gens[id]
    IN  IF f.pc = "start" /\ (f.a.k # "int" \/ f.b.k # "int") THEN Raise(m, id)
        ELSE IF f.sub # 0
        THEN LET r == Resume(m, f.sub)
             IN  IF r.y THEN Yield(r.m)
                 ELSE between([r.m EXCEPT !.gens[id].sub = 0, !.gens[id].i = @ + 1], id)
        ELSE IF f.a.v + f.i > f.b.v THEN Return(m, id)
        ELSE LET n == Construct(m, E_unify(f.c, IntT(f.a.v + f.i)))
             IN  between([n.m EXCEPT !.gens[id].pc = "loop", !.gens[id].sub = n.id], id)

\* the end of once: r is the outcome of next(gen); on a success the
\* generator is closed; the finally block restores the flag
once_finally(old_value, id, r) ==
    [m |-> [(IF r.y THEN GenClose(r.m, id) ELSE r.m) EXCEPT !.nb = old_value],
     result |-> r.y, exc |-> Raised(r)]

\* the try block of once from next(gen) on; n is the generator of the goal
once_try(old_value, n) == once_finally(old_value, n.id, Resume(n.m, n.id))

\* a once that leaves commit mode off when it returns
once_call_reset(m, goal) ==
    once_try(FALSE, Invoke([m EXCEPT !.nb = TRUE], goal))

\* once(goal), called from the body of a generator: the whole call, run to
\* its return (result) or to the exception it propagates (exc)
once_call(m, goal) ==
    once_try(m.nb, Invoke([m EXCEPT !.nb = TRUE], goal))

\* `yield from rest()` as the last statement of generator `id`; n is the
\* generator the call made
YieldFromNew(id, n) == YieldFrom(n.m, id, n.id)

\* the body of commit_then after once(inner) has ended with outcome o
commit_rest(id, o, rest) ==
    IF o.exc THEN Raise(o.m, id)
    ELSE IF o.result THEN YieldFromNew(id, Invoke(o.m, rest))
    ELSE Return(o.m, id)

\* a client rule that commits to the first success of `inner` and goes on
\* with `rest`:   if once(inner): yield from rest()
commit_then(m, id) ==
    IF m.gens[id].pc = "start"
    THEN commit_rest(id, once_call(m, m.gens[id].goals[1]), m.gens[id].goals[2])
    ELSE YieldFrom(m, id, m.gens[id].sub)

\* next(gen): a generator that has returned raises StopIteration at once
Resume(m, id) ==
    LET f == m.gens[id]
    IN  CASE f.pc = "done" -> [m |-> m, y |-> FALSE]
          [] f.fn = "unify" -> unify(m, id)
          [] f.fn = "unify_all" -> unify_all(m, id)
          [] f.fn = "AND" -> AND(m, id)
          [] f.fn = "OR" -> OR(m, id)
          [] f.fn = "ONCE" -> ONCE(m, id)
          [] f.fn = "succeed" -> succeed(m, id)
          [] f.fn = "fail" -> fail(m, id)
          [] f.fn = "member" -> member(m, id)
          [] f.fn = "not_unifiable" -> not_unifiable(m, id)
          [] f.fn = "different" -> different(m, id)
          [] f.fn = "append" -> append(m, id)
          [] f.fn = "between" -> between(m, id)
          [] f.fn = "commit_then" -> commit_then(m, id)
          [] f.fn = "test_unify" -> test_unify(m, id)
          [] f.fn = "test_compose" -> test_compose(m, id)
          [] f.fn = "test_compose_or" -> test_compose_or(m, id)

----------------------------------------------------------------------------
(* The query driver *)

\* the Vars of the client program: X = Var('X'), Y = Var('Y')
X == VarT(0)
Y == VarT(1)

\* a snapshot of fresh Vars that are left unbound
Snapshot_placeholders(m) ==
    [X |-> [id |-> m.counter, binding |-> None],
     Y |-> [id |-> m.counter + 1, binding |-> None]]

\* the snapshot loop of run for vars = {X: X, Y: Y}: each new Var takes the
\* next id and is bound to the dereferenced value.  The new Vars are
\* referenced by the Solution only, so their fields are kept in it.
Snapshot(m) ==
    [X |-> [id |-> m.counter, binding |-> Value(m.binding, X)],
     Y |-> [id |-> m.counter + 1, binding |-> Value(m.binding, Y)]]

\* Solution.__getattr__: `var.value if var.is_bound() else var`
Solution_getattr(bnd, sol, name) ==
    LET var == sol[name]
    IN  IF var.binding.k # "none"
        THEN IF isVar(var.binding) THEN deref(bnd, var.binding.v) ELSE var.binding
        ELSE VarT(var.id)

\* one next() on a run(goal, X=X, Y=Y) generator
\* the body of `for _ in gen:`, given the outcome r of next(gen)
run_body(id, r) ==
    IF r.y
    THEN [m |-> [r.m EXCEPT !.counter = @ + 2], y |-> TRUE, val |-> Snapshot(r.m)]
    ELSE [m |-> SetPc(r.m, id, "done"), y |-> FALSE, val |-> None]

\* next(gen) on the goal's generator n.id
run_gen(id, n) ==
    run_body(id, Resume([n.m EXCEPT !.gens[id].pc = "loop", !.gens[id].sub = n.id], n.id))

run(m, id) ==
    LET f == m.gens[id]
    IN  IF f.pc = "done" THEN [m |-> m, y |-> FALSE, val |-> None]
        ELSE run_gen(id, IF f.pc = "start" THEN Invoke(m, f.goals[1])
                         ELSE [m |-> m, id |-> f.sub])

\* the client evaluates `run(<goal>, X=X, Y=Y)`: the goal expression first,
\* then the call, which only creates the generator
CallRun(m, goal) ==
    LET ev == EvalArgs(m, <<goal>>, <<>>)
    IN  NewGen(ev.m, [Frame("run") EXCEPT !.goals = ev.goals])

\* what the client reads from a Solution the moment it receives it
Received(bnd, sol) ==
    [vars |-> sol,
     seen |-> [X |-> Solution_getattr(bnd, sol, "X"),
               Y |-> Solution_getattr(bnd, sol, "Y")]]

\* history kept while the client is idle: the store a successful once() left
NoQuery == [op |-> "none", committed |-> <<>>]

ThisEngine == Engine(gens, binding, Var_counter, no_backtrack)

Init ==
    /\ binding = (0 :> None) @@ (1 :> None)
    /\ Var_counter = 2
    /\ gens = <<>>
    /\ no_backtrack = FALSE
    /\ pc = "idle"
    /\ top = 0
    /\ sols = <<>>
    /\ query = NoQuery
    /\ nq = 0

\* for solution in run(goal, X=X, Y=Y): the call
Run(goal) ==
    /\ pc = "idle"
    /\ nq < MaxQueries
    /\ Var_counter <= MaxVars
    /\ LET n == CallRun(ThisEngine, goal)
       IN  /\ gens' = n.m.gens
           /\ top' = n.id
    /\ pc' = "iterating"
    /\ sols' = <<>>
    /\ query' = [op |-> "run", goal |-> goal, pre |-> binding,
                 after |-> query.committed, state |-> "open"]
    /\ nq' = nq + 1
    /\ UNCHANGED <<binding, Var_counter, no_backtrack>>

\* the client requests the next Solution
\* the client's loop receives the outcome r of next() on the stream
Deliver(r) ==
    /\ binding' = r.m.binding
    /\ Var_counter' = r.m.counter
    /\ IF r.y
       THEN /\ gens' = r.m.gens
            /\ sols' = Append(sols, Received(r.m.binding, r.val))
            /\ UNCHANGED <<pc, top, query>>
       ELSE /\ gens' = <<>>
            /\ pc' = "done"
            /\ top' = 0
            /\ query' = [query EXCEPT !.state = "exhausted"]
            /\ UNCHANGED sols

NextSolution ==
    /\ pc = "iterating"
    /\ Deliver(run(ThisEngine, top))
    /\ UNCHANGED <<no_backtrack, nq>>

\* the client closes or drops the stream after some Solution
Close ==
    /\ pc = "iterating"
    /\ sols # <<>>
    /\ binding' = GenClose(ThisEngine, top).binding
    /\ gens' = <<>>
    /\ top' = 0
    /\ pc' = "done"
    /\ query' = [query EXCEPT !.state = "closed"]
    /\ UNCHANGED <<Var_counter, no_backtrack, sols, nq>>

\* run_one returns r's Solution or None; c is the engine once the dropped
\* stream has been closed
run_one_return(goal, r, c) ==
    /\ binding' = c.binding
    /\ Var_counter' = c.counter
    /\ sols' = IF r.y THEN <<Received(c.binding, r.val)>> ELSE <<>>
    /\ query' = [op |-> "run_one", goal |-> goal, pre |-> binding,
                 after |-> query.committed,
                 state |-> "returned", result |-> r.y]

run_one_drop(goal, id, r) == run_one_return(goal, r, GenClose(r.m, id))

\* next(run(...), None) on the stream n.id just created
run_one_next(goal, n) == run_one_drop(goal, n.id, run(n.m, n.id))

\* run_one(goal, X=X, Y=Y) == next(run(goal, X=X, Y=Y), None)
run_one(goal) ==
    /\ pc = "idle"
    /\ nq < MaxQueries
    /\ Var_counter <= MaxVars
    /\ run_one_next(goal, CallRun(ThisEngine, goal))
    /\ gens' = <<>>
    /\ pc' = "done"
    /\ nq' = nq + 1
    /\ UNCHANGED <<no_backtrack, top>>

\* finally: _local.no_backtrack = old_value; c is the engine after the try
once_return(goal, old_value, r, c) ==
    /\ binding' = c.binding
    /\ Var_counter' = c.counter
    /\ query' = [op |-> "once", goal |-> goal, pre |-> binding,
                 after |-> query.committed, at |-> r.m.binding,
                 state |-> "returned", result |-> r.y]
    /\ no_backtrack' = old_value

\* gen.close(); return True  /  except StopIteration: return False
once_close(goal, old_value, id, r) ==
    once_return(goal, old_value, r, IF r.y THEN GenClose(r.m, id) ELSE r.m)

\* next(gen)
once_first(goal, old_value, n) ==
    once_close(goal, old_value, n.id, Resume(n.m, n.id))

\* _local.no_backtrack = True; gen = goal() if callable(goal) else goal
once_goal(goal, old_value, ev) ==
    once_first(goal, old_value, Invoke([ev.m EXCEPT !.nb = TRUE], ev.goals[1]))

\* once(goal)
once(goal) ==
    /\ pc = "idle"
    /\ nq < MaxQueries
    /\ Var_counter <= MaxVars
    /\ once_goal(goal, no_backtrack, EvalArgs(ThisEngine, <<goal>>, <<>>))
    /\ gens' = <<>>
    /\ pc' = "done"
    /\ nq' = nq + 1
    /\ UNCHANGED <<top, sols>>

\* the client drops the Solutions of the completed operation
Forget ==
    /\ pc = "done"
    /\ pc' = "idle"
    /\ sols' = <<>>
    /\ query' = [NoQuery EXCEPT !.committed =
                     IF query.op = "once" /\ query.result THEN <<binding>> ELSE <<>>]
    /\ UNCHANGED <<binding, Var_counter, gens, no_backtrack, top, nq>>

----------------------------------------------------------------------------
(* The goals the client may pose *)

Scalars == {IntT(n) : n \in 1..MaxVal}
ArgTerms == {X, Y} \cup Scalars

\* [1, ..., MaxVal]
Range == ListT([j \in 1..MaxVal |-> IntT(j)])

Atoms ==
    {E_unify(s, t) : s \in ArgTerms, t \in ArgTerms}
    \cup {E_not_unifiable(s, t) : s \in ArgTerms, t \in ArgTerms}
    \cup {E_different(s, t) : s \in {X}, t \in ArgTerms}
    \cup {E_member(v, Range) : v \in {X, Y}}
    \cup {E_succeed, E_fail}

\* the goals combined pairwise
Operands ==
    {E_unify(X, IntT(1)), E_unify(X, IntT(2)),
     E_unify(Y, IntT(1)), E_unify(X, Y), E_different(X, Y),
     E_member(X, Range), E_fail}

Forms == {"lam", "call"}
Arg(form, e) == [form |-> form, e |-> e]

Pairs ==
    {E_AND(<<Arg(f, g), Arg(f, h)>>) : f \in Forms, g \in Operands, h \in Operands}
    \cup {E_OR(<<Arg(f, g), Arg(f, h)>>) : f \in Forms, g \in Operands, h \in Operands}

Singles ==
    {E_ONCE(Arg(f, g)) : f \in Forms, g \in Operands}
    \cup {E_AND(<<Arg(f, g)>>) : f \in Forms, g \in Operands}
    \cup {E_OR(<<Arg(f, g)>>) : f \in Forms, g \in Operands}
    \cup {E_AND(<<>>), E_OR(<<>>)}

\* scenario 3 of the specification, as written and with lambdas
DistinctPairs(f) ==
    E_AND(<<Arg(f, E_member(X, ListOf123)), Arg(f, E_member(Y, ListOf123)),
            Arg(f, E_different(X, Y))>>)

\* scenario 2 of the specification
OneTwoThree(f) ==
    E_OR(<<Arg(f, E_unify(X, IntT(1))), Arg(f, E_unify(X, IntT(2))),
           Arg(f, E_unify(X, IntT(3)))>>)

\* a first alternative that binds and then fails
BindFailThen(f) ==
    E_OR(<<Arg(f, E_AND(<<Arg(f, E_unify(X, IntT(1))), Arg(f, E_fail)>>)),
           Arg(f, E_unify(X, IntT(2)))>>)

\* a second goal whose argument reads the binding the first goal installs
LazyArg(f) ==
    E_AND(<<Arg(f, E_member(X, Range)), Arg(f, E_unify(Y, ValueOf(X)))>>)

Nested ==
    {DistinctPairs(f) : f \in Forms}
    \cup {LazyArg(f) : f \in Forms}
    \cup {OneTwoThree(f) : f \in Forms}
    \cup {BindFailThen(f) : f \in Forms}
    \cup {E_ONCE(Arg(f, E_OR(<<Arg(f, E_unify(X, IntT(1))), Arg(f, E_unify(X, IntT(2)))>>)))
            : f \in Forms}
    \cup {E_OR(<<Arg(f, E_ONCE(Arg(f, E_member(X, Range)))), Arg(f, E_unify(Y, IntT(1)))>>)
            : f \in Forms}
    \cup {E_test_unify(X), E_test_compose(X, Y), E_test_compose_or(X, Y)}
    \cup {E_unify_all(<<<<X, IntT(1)>>, <<Y, IntT(2)>>>>),
          E_unify_all(<<<<X, IntT(1)>>, <<X, IntT(2)>>>>),
          E_unify(ListT(<<X, X>>), ListT(<<IntT(1), IntT(2)>>)),
          E_unify(ListT(<<X, IntT(2)>>), ListT(<<IntT(1), Y>>)),
          E_unify(TupleT(<<X, Y>>), TupleT(<<IntT(1)>>)),
          E_unify(DictT(<<<<IntT(1), X>>>>), DictT(<<<<IntT(2), IntT(1)>>, <<IntT(1), IntT(2)>>>>))}

\* a goal followed by the identity goal, the latter passed as the function
\* `succeed` (a nullary callable) or as the producer `succeed()`
WithSucceed ==
    {E_AND(<<Arg(f, g), Arg(h, E_succeed)>>) :
        f \in Forms, h \in Forms,
        g \in {E_member(X, Range), E_unify(X, IntT(1)), E_fail}}

Goals == Atoms \cup Pairs \cup Singles \cup Nested \cup WithSucceed

\* a top-level goal is passed as a producer or as a nullary callable
TopGoals == {Call(e) : e \in Goals} \cup {Lam(e) : e \in Nested}

Next ==
    \/ \E goal \in TopGoals : Run(goal)
    \/ NextSolution
    \/ Close
    \/ \E goal \in TopGoals : run_one(goal)
    \/ \E goal \in TopGoals : once(goal)
    \/ Forget

Spec == Init /\ [][Next]_vars

----------------------------------------------------------------------------
(* Unification of structured terms: a second specification, in which the   *)
(* client poses one query over scalars, sequences, tuples and records,     *)
(* from any of the stores earlier committed queries can have left.         *)

MaxLen == 2       \* longest generated sequence

Booleans == {BoolT(0), BoolT(1)}
CoreElems == {X, IntT(1)}
Seqs == UNION {[1..n -> CoreElems] : n \in 1..MaxLen}

ListTerms ==
    {ListT(s) : s \in Seqs}
    \cup {ListT(<<>>), ListT(<<X, Y>>), ListT(<<Y, X>>), ListT(<<IntT(1), Y>>),
          ListT(<<IntT(1), IntT(2)>>), ListT(<<X, IntT(2)>>),
          ListT(<<BoolT(1)>>), ListT(<<IntT(2), BoolT(1)>>),
          ListT(<<ListT(<<X>>)>>), ListT(<<ListT(<<IntT(1)>>)>>)}

TupleTerms ==
    {TupleT(<<>>), TupleT(<<X>>), TupleT(<<IntT(1)>>), TupleT(<<BoolT(1)>>),
     TupleT(<<X, Y>>), TupleT(<<IntT(1), IntT(2)>>)}

\* records, as key/value entries in insertion order
DictTerms ==
    {DictT(<<>>),
     DictT(<<<<IntT(1), X>>>>), DictT(<<<<IntT(2), X>>>>), DictT(<<<<IntT(3), X>>>>),
     DictT(<<<<IntT(1), IntT(1)>>>>), DictT(<<<<IntT(1), BoolT(1)>>>>),
     DictT(<<<<IntT(1), X>>, <<IntT(2), Y>>>>),
     DictT(<<<<IntT(1), X>>, <<IntT(3), Y>>>>),
     DictT(<<<<IntT(1), IntT(1)>>, <<IntT(2), IntT(2)>>>>),
     DictT(<<<<IntT(2), IntT(2)>>, <<IntT(1), IntT(1)>>>>),
     DictT(<<<<IntT(1), IntT(2)>>, <<IntT(2), IntT(1)>>>>)}

Terms ==
    {X, Y, None} \cup Scalars \cup {IntT(0)} \cup Booleans
    \cup ListTerms \cup TupleTerms \cup DictTerms

PairLists ==
    {<<>>,
     <<<<X, IntT(1)>>>>,
     <<<<X, IntT(1)>>, <<Y, IntT(2)>>>>,
     <<<<X, IntT(1)>>, <<X, IntT(2)>>>>,
     <<<<X, Y>>, <<Y, IntT(1)>>, <<X, IntT(1)>>>>,
     <<<<X, Y>>, <<Y, IntT(1)>>, <<X, IntT(2)>>>>,
     <<<<ListT(<<X, Y>>), ListT(<<IntT(1), IntT(2)>>)>>, <<Y, X>>>>}

\* ground lists to concatenate and to split
AppendLists ==
    {ListT(<<>>), ListT(<<IntT(1)>>), ListT(<<IntT(2)>>), ListT(<<IntT(1), IntT(2)>>)}

AppendGoals ==
    {E_append(xs, ys, X) : xs \in AppendLists, ys \in AppendLists}
    \cup {E_append(xs, Y, ListT(xs.v \o ys.v)) : xs \in AppendLists, ys \in AppendLists}

TermGoals ==
    {E_unify(a, b) : a \in Terms, b \in Terms}
    \cup {E_not_unifiable(a, b) : a \in Terms, b \in Terms}
    \cup {E_different(X, b) : b \in Terms}
    \cup {E_unify_all(pairs) : pairs \in PairLists}
    \cup AppendGoals

\* X and Y as once(unify(X, 1)), once(unify(X, Y)) and once(unify(Y, 2))
\* leave them
Stores ==
    {(0 :> bx) @@ (1 :> by) : bx \in {None, IntT(1), Y}, by \in {None, IntT(2)}}

UnifierInit ==
    /\ binding \in Stores
    /\ Var_counter = 2
    /\ gens = <<>>
    /\ no_backtrack = FALSE
    /\ pc = "idle"
    /\ top = 0
    /\ sols = <<>>
    /\ query = NoQuery
    /\ nq = 0

\* run(<goal>, X=X, Y=Y): the goal is passed as a producer
TermQueries == {Call(e) : e \in TermGoals}

UnifierNext ==
    \/ \E goal \in TermQueries : Run(goal)
    \/ NextSolution

UnifierSpec == UnifierInit /\ [][UnifierNext]_vars

----------------------------------------------------------------------------
(* Chains of Vars: a third specification, in which the client has three    *)
(* Vars, all unbound at the start, and poses unifications of Vars and      *)
(* scalars as committed queries (once) and as normal queries that are      *)
(* consumed, exhausted or closed.                                          *)

W == VarT(2)

ChainTerms == {X, Y, W, IntT(1), IntT(2)}
ChainPairs == {<<s, t>> : s \in {X, Y, W}, t \in {X, Y, W}}

ChainUnifies == {E_unify(s, t) : s \in ChainTerms, t \in ChainTerms}

ChainSequences ==
    {E_unify_all(<<p, q>>) : p \in ChainPairs, q \in ChainPairs}
    \cup {E_unify_all(<<p, <<X, IntT(1)>>, <<W, IntT(2)>>>>) : p \in ChainPairs}

ChainGoals == ChainUnifies \cup ChainSequences

ChainInit ==
    /\ binding = (0 :> None) @@ (1 :> None) @@ (2 :> None)
    /\ Var_counter = 3
    /\ gens = <<>>
    /\ no_backtrack = FALSE
    /\ pc = "idle"
    /\ top = 0
    /\ sols = <<>>
    /\ query = NoQuery
    /\ nq = 0

\* every goal is passed as a producer
ChainUnifyCalls == {Call(e) : e \in ChainUnifies}
ChainSequenceCalls == {Call(e) : e \in ChainSequences}
ChainQueries == {Call(e) : e \in ChainGoals}

ChainNext ==
    \/ \E goal \in ChainUnifyCalls : once(goal)
    \/ \E goal \in ChainSequenceCalls : once(goal)
    \/ Forget
    \/ \E goal \in ChainQueries : Run(goal)
    \/ NextSolution
    \/ Close

ChainSpec == ChainInit /\ [][ChainNext]_vars

----------------------------------------------------------------------------
(* Two threads: a fourth specification.  Each thread is a client of its    *)
(* own with one Var of its own (thread 1 has X, thread 2 has Y); the       *)
(* threads share the module state of the runtime.  Here no_backtrack, pc,  *)
(* top, sols, query and gens are indexed by thread: _local is a            *)
(* threading.local(), and generator objects are reachable from the thread  *)
(* that made them only.  A step is one call of next() or one of the three  *)
(* stages of once (entering, running the goal, leaving): the threads work  *)
(* on disjoint Vars, so the statements inside a next() of one thread       *)
(* commute with those of the other.                                        *)

Threads == {1, 2}
OwnVar(t) == VarT(t - 1)
OwnName(t) == IF t = 1 THEN "X" ELSE "Y"

\* a flag that is one attribute of the module, shared by all threads
Local_shared(nb, t) == \E u \in DOMAIN nb : nb[u]

\* getattr(_local, 'no_backtrack', False) in thread t
Local(nb, t) == nb[t]

ThreadEngine(t) == Engine(gens[t], binding, Var_counter, Local(no_backtrack, t))

\* the goals a thread passes to once
OnceGoals(v) ==
    {Call(E_unify(v, IntT(1))), Lam(E_member(v, ListT(<<IntT(1), IntT(2)>>))),
     Call(E_fail),
     Lam(E_AND(<<Lam(E_unify(v, IntT(1))), Lam(E_fail)>>)),
     Call(E_between(IntT(1), IntT(2), v)),
     Call(E_between(v, IntT(2), v)),
     Lam(E_between(IntT(1), v, v)),
     Lam(E_commit_then(Lam(E_unify(v, IntT(1))), Lam(E_member(v, ListT(<<IntT(2), IntT(1)>>))))),
     Lam(E_commit_then(Lam(E_fail), Lam(E_unify(v, IntT(1))))),
     Lam(E_commit_then(Lam(E_between(v, IntT(2), v)), Lam(E_succeed)))}

\* the goals a thread enumerates with run
RunGoals(v) ==
    {Call(E_unify(v, IntT(1))),
     Call(E_OR(<<Call(E_unify(v, IntT(1))), Call(E_unify(v, IntT(2)))>>)),
     Call(E_AND(<<Lam(E_member(v, ListT(<<IntT(1), IntT(2)>>))), Lam(E_unify(v, IntT(2)))>>)),
     Call(E_AND(<<Lam(E_unify(v, IntT(1))), Lam(E_fail)>>)),
     Call(E_between(IntT(1), IntT(2), v)),
     Lam(E_commit_then(Lam(E_unify(v, IntT(1))), Lam(E_member(v, ListT(<<IntT(2), IntT(1)>>)))))}

ThreadInit ==
    /\ binding = (0 :> None) @@ (1 :> None)
    /\ Var_counter = 2
    /\ gens = [t \in Threads |-> <<>>]
    /\ no_backtrack = [t \in Threads |-> FALSE]
    /\ pc = [t \in Threads |-> "idle"]
    /\ top = [t \in Threads |-> 0]
    /\ sols = [t \in Threads |-> <<>>]
    /\ query = [t \in Threads |-> NoQuery]
    /\ nq = 0

\* once(goal) in thread t, up to the try: the flag is saved and set
once_enter(t, goal) ==
    /\ pc[t] = "idle"
    /\ nq < MaxQueries
    /\ Var_counter <= MaxVars
    /\ LET old_value == Local(no_backtrack, t)
           ev == EvalArgs(ThreadEngine(t), <<goal>>, <<>>)
       IN  /\ gens' = [gens EXCEPT ![t] = ev.m.gens]
           /\ query' = [query EXCEPT ![t] =
                           [op |-> "once", goal |-> goal, arg |-> ev.goals[1],
                            pre |-> binding, old_value |-> old_value,
                            state |-> "entered"]]
    /\ no_backtrack' = [no_backtrack EXCEPT ![t] = TRUE]
    /\ pc' = [pc EXCEPT ![t] = "entered"]
    /\ nq' = nq + 1
    /\ UNCHANGED <<binding, Var_counter, top, sols>>

\* the try block of once: the goal is called, asked for its first success
\* and closed; an exception other than StopIteration propagates
once_next(t) ==
    /\ pc[t] = "entered"
    /\ LET n == Invoke(ThreadEngine(t), query[t].arg)
           r == Resume(n.m, n.id)
           c == IF r.y THEN GenClose(r.m, n.id) ELSE r.m
       IN  /\ binding' = c.binding
           /\ Var_counter' = c.counter
           /\ no_backtrack' = [no_backtrack EXCEPT ![t] = c.nb]
           /\ query' = [query EXCEPT ![t] =
                           [@ EXCEPT !.state = IF Raised(r) THEN "raising" ELSE "returning"]
                           @@ [result |-> r.y]]
    /\ gens' = [gens EXCEPT ![t] = <<>>]
    /\ pc' = [pc EXCEPT ![t] = "leaving"]
    /\ UNCHANGED <<top, sols, nq>>

\* the finally block of once
once_exit(t) ==
    /\ pc[t] = "leaving"
    /\ no_backtrack' = [no_backtrack EXCEPT ![t] = query[t].old_value]
    /\ pc' = [pc EXCEPT ![t] = "done"]
    /\ query' = [query EXCEPT ![t].state =
                    IF @ = "raising" THEN "raised" ELSE "returned"]
    /\ UNCHANGED <<binding, Var_counter, gens, top, sols, nq>>

\* thread t evaluates run(goal, X=X, Y=Y)
ThreadRun(t, goal) ==
    /\ pc[t] = "idle"
    /\ nq < MaxQueries
    /\ Var_counter <= MaxVars
    /\ LET n == CallRun(ThreadEngine(t), goal)
       IN  /\ gens' = [gens EXCEPT ![t] = n.m.gens]
           /\ top' = [top EXCEPT ![t] = n.id]
    /\ pc' = [pc EXCEPT ![t] = "iterating"]
    /\ sols' = [sols EXCEPT ![t] = <<>>]
    /\ query' = [query EXCEPT ![t] =
                    [op |-> "run", goal |-> goal, pre |-> binding, state |-> "open",
                     during |-> {u \in Threads : pc[u] \in {"entered", "leaving"}}]]
    /\ nq' = nq + 1
    /\ UNCHANGED <<binding, Var_counter, no_backtrack>>

\* thread t requests the next Solution
ThreadNextSolution(t) ==
    /\ pc[t] = "iterating"
    /\ LET r == run(ThreadEngine(t), top[t])
       IN  /\ binding' = r.m.binding
           /\ Var_counter' = r.m.counter
           /\ no_backtrack' = [no_backtrack EXCEPT ![t] = r.m.nb]
           /\ IF r.y
              THEN /\ gens' = [gens EXCEPT ![t] = r.m.gens]
                   /\ sols' = [sols EXCEPT ![t] = Append(@, Received(r.m.binding, r.val))]
                   /\ UNCHANGED <<pc, top, query>>
              ELSE /\ gens' = [gens EXCEPT ![t] = <<>>]
                   /\ pc' = [pc EXCEPT ![t] = "done"]
                   /\ top' = [top EXCEPT ![t] = 0]
                   /\ query' = [query EXCEPT ![t].state = "exhausted"]
                   /\ UNCHANGED sols
    /\ UNCHANGED nq

\* thread t drops the results of its completed operation
ThreadForget(t) ==
    /\ pc[t] = "done"
    /\ pc' = [pc EXCEPT ![t] = "idle"]
    /\ sols' = [sols EXCEPT ![t] = <<>>]
    /\ query' = [query EXCEPT ![t] = NoQuery]
    /\ UNCHANGED <<binding, Var_counter, gens, no_backtrack, top, nq>>

\* each thread poses its goals over its own Var
ThreadOnceGoals == [t \in Threads |-> OnceGoals(OwnVar(t))]
ThreadRunGoals == [t \in Threads |-> RunGoals(OwnVar(t))]

ThreadNext ==
    \E t \in Threads :
        \/ \E goal \in ThreadOnceGoals[t] : once_enter(t, goal)
        \/ once_next(t)
        \/ once_exit(t)
        \/ \E goal \in ThreadRunGoals[t] : ThreadRun(t, goal)
        \/ ThreadNextSolution(t)
        \/ ThreadForget(t)

ThreadSpec == ThreadInit /\ [][ThreadNext]_vars

----------------------------------------------------------------------------
(* The constructor of Var under two threads: a fifth specification, at the *)
(* grain of the reads and writes of Var._counter.  Here `binding` is the   *)
(* sequence of the Var objects in the order their constructors were        *)
(* entered, each with its id, the thread constructing it, whether the      *)
(* constructor has returned, and the objects that were complete when it    *)
(* was entered; pc, top and query are indexed by thread: top[t] is the     *)
(* value of Var._counter that thread t has loaded, query[t] the object it  *)
(* is constructing.  No lock guards the counter (core.py:33-34).           *)

VarInit ==
    /\ binding = <<>>
    /\ Var_counter = 0
    /\ gens = <<>>
    /\ no_backtrack = FALSE
    /\ pc = [t \in Threads |-> "idle"]
    /\ top = [t \in Threads |-> 0]
    /\ sols = <<>>
    /\ query = [t \in Threads |-> 0]
    /\ nq = 0

\* self.id = Var._counter
Var_init_id(t) ==
    /\ pc[t] = "idle"
    /\ nq < MaxVars
    /\ binding' = Append(binding,
                     [id |-> Var_counter, binding |-> None, by |-> t, complete |-> FALSE,
                      before |-> {j \in 1..Len(binding) : binding[j].complete}])
    /\ query' = [query EXCEPT ![t] = Len(binding) + 1]
    /\ pc' = [pc EXCEPT ![t] = "id"]
    /\ nq' = nq + 1
    /\ UNCHANGED <<Var_counter, gens, no_backtrack, top, sols>>

\* Var._counter += 1: the load
Var_init_load(t) ==
    /\ pc[t] = "id"
    /\ top' = [top EXCEPT ![t] = Var_counter]
    /\ pc' = [pc EXCEPT ![t] = "loaded"]
    /\ UNCHANGED <<binding, Var_counter, gens, no_backtrack, sols, query, nq>>

\* Var._counter += 1: the store of the incremented value; the constructor
\* then sets name and _binding and returns
Var_init_store(t) ==
    /\ pc[t] = "loaded"
    /\ Var_counter' = top[t] + 1
    /\ binding' = [binding EXCEPT ![query[t]].complete = TRUE]
    /\ pc' = [pc EXCEPT ![t] = "idle"]
    /\ UNCHANGED <<gens, no_backtrack, top, sols, query, nq>>

VarNext ==
    \E t \in Threads : Var_init_id(t) \/ Var_init_load(t) \/ Var_init_store(t)

VarSpec == VarInit /\ [][VarNext]_vars

----------------------------------------------------------------------------
(* Reference enumerations used to state the properties *)

\* the values of the client's Vars in a store
XY(bnd) == <<Value(bnd, X), Value(bnd, Y)>>

\* what the client read from the Solutions it received, in order
Seen == [j \in 1..Len(sols) |-> <<sols[j].seen.X, sols[j].seen.Y>>]

RECURSIVE Drain(_, _, _)
Drain(m, id, acc) ==
    LET r == run(m, id)
        got == Received(r.m.binding, r.val).seen
    IN  IF r.y THEN Drain(r.m, id, Append(acc, <<got.X, got.Y>>)) ELSE acc

\* normal enumeration: the Solutions of run(goal, X=X, Y=Y), consumed to
\* exhaustion with the commit flag off, started in store bnd
Enumerate(bnd, goal) ==
    LET n == CallRun(Engine(<<>>, bnd, Var_counter, FALSE), goal)
    IN  Drain(n.m, n.id, <<>>)

\* the tuples of successes of a list of goal expressions: each goal is
\* started in the store its predecessor's success left, the rightmost goal
\* varies fastest
RECURSIVE Tuples(_, _, _), TuplesFrom(_, _, _, _)
Tuples(m, goals, acc) ==
    IF goals = <<>> THEN [m |-> m, seen |-> Append(acc, XY(m.binding))]
    ELSE LET n == Construct(m, Head(goals))
         IN  TuplesFrom(n.m, n.id, Tail(goals), acc)
TuplesFrom(m, id, rest, acc) ==
    LET r == Resume(m, id)
        t == Tuples(r.m, rest, acc)
    IN  IF r.y THEN TuplesFrom(t.m, id, rest, t.seen) ELSE [m |-> r.m, seen |-> acc]

\* the concatenation of the normal enumerations of the branches, each
\* started in store bnd
RECURSIVE Concatenation(_, _)
Concatenation(bnd, args) ==
    IF args = <<>> THEN <<>>
    ELSE Enumerate(bnd, Head(args)) \o Concatenation(bnd, Tail(args))

RECURSIVE CoreGoal(_)
CoreGoal(e) ==
    \/ e.fn \in {"unify", "unify_all", "not_unifiable", "different"}
    \/ /\ e.fn \in {"AND", "OR", "ONCE"}
       /\ \A j \in 1..Len(e.args) : CoreGoal(e.args[j].e)

\* goals in which no generator is abandoned before it is exhausted
RECURSIVE Exhaustive(_)
Exhaustive(e) ==
    \/ e.fn \in {"unify", "unify_all", "member", "succeed", "fail"}
    \/ /\ e.fn \in {"AND", "OR"}
       /\ \A j \in 1..Len(e.args) : Exhaustive(e.args[j].e)

Exhausted == pc = "done" /\ query.op = "run" /\ query.state = "exhausted"

\* every Var that existed before the operation has the binding it had then
Restored == \A v \in DOMAIN query.pre : binding[v] = query.pre[v]

Unbound(bnd) == \A v \in DOMAIN bnd : ~is_bound(bnd, v)

AllLam(e) == \A j \in 1..Len(e.args) : e.args[j].form = "lam"
AllCall(e) == \A j \in 1..Len(e.args) : e.args[j].form = "call"
Bodies(e) == [j \in 1..Len(e.args) |-> e.args[j].e]
WithLambdas(e) == [e EXCEPT !.args = [j \in 1..Len(e.args) |-> Lam(e.args[j].e)]]

Ints(pairs) == [j \in 1..Len(pairs) |-> <<IntT(pairs[j][1]), IntT(pairs[j][2])>>]

----------------------------------------------------------------------------
(* Properties *)

\* C1 (P2, backtracking cleanliness): after a normal run(goal) of a goal
\* built from unify, unify_all, AND, OR, ONCE and not_unifiable/different has
\* been consumed to exhaustion, every Var that was unbound before the query
\* is unbound.
C1_BacktrackingCleanliness ==
    (Exhausted /\ CoreGoal(query.goal.e))
        => \A v \in DOMAIN query.pre :
              ~is_bound(query.pre, v) => ~is_bound(binding, v)

\* C2 (cancellation): when the client stops after some Solution and closes
\* or drops the stream, as run_one does, every Var has the binding it had
\* before the query was started.
C2_CloseRestores ==
    (pc = "done" /\ sols # <<>> /\ (query.state = "closed" \/ query.op = "run_one"))
        => Restored

\* C3: in normal mode the bindings of the first success of g inside ONCE(g)
\* are undone once the consumer has requested the next success or closed the
\* sequence.
C3_OnceRestores ==
    (pc = "done" /\ query.op = "run" /\ query.goal.e.fn = "ONCE" /\ sols # <<>>)
        => Restored

\* C4 (P7): once a not_unifiable(a, b) / different(a, b) goal has finished,
\* every Var has the same binding as before the goal was started.
C4_NegationLeakproof ==
    (Exhausted /\ query.goal.e.fn \in {"not_unifiable", "different"}) => Restored

\* C5: once(g) returns true exactly when normal enumeration of g yields at
\* least one solution, and it leaves on X and Y the values of the first
\* solution of that enumeration.  Stated for goals without ONCE and
\* not_unifiable, whose enumeration does not depend on C3 and C4.
C5_OnceIsFirstSolution ==
    (pc = "done" /\ query.op = "once" /\ Exhaustive(query.goal.e))
        => LET e == Enumerate(query.pre, query.goal)
           IN  /\ query.result <=> e # <<>>
               /\ query.result => XY(binding) = e[1]

\* C6: a binding installed by an earlier goal of a conjunction (or pair of
\* unify_all) is undone when a later goal yields no success: a conjunction
\* that yields no Solution in normal enumeration, and any once(g) that
\* returns false, leave every Var's binding as it was.  Stated for goals
\* without ONCE and not_unifiable, which do not depend on C3 and C4.
C6_FailedConjunctionRestores ==
    (pc = "done" /\ Exhaustive(query.goal.e)
     /\ \/ query.op = "once" /\ ~query.result
        \/ Exhausted /\ sols = <<>> /\ query.goal.e.fn \in {"AND", "unify_all"})
        => Restored

\* C7 (P8, commit persistence): after once(g) returns true, every Var that
\* was bound at the success once observed dereferences to the same value
\* (closing the producer and leaving commit mode undo nothing), and the next
\* normal query is started in that committed store.
C7_CommitPersistence ==
    /\ (pc = "done" /\ query.op = "once" /\ query.result)
          => \A v \in DOMAIN query.at :
                is_bound(query.at, v) => deref(binding, v) = deref(query.at, v)
    /\ (query.op \in {"run", "run_one"} /\ query.after # <<>>)
          => query.pre = query.after[1]

\* C7 witness: once(g) has returned true and has bound a Var that was unbound
C7_Witness ==
    /\ pc = "done" /\ query.op = "once" /\ query.result
    /\ \E v \in DOMAIN query.pre : ~is_bound(query.pre, v) /\ is_bound(binding, v)

SixPairs == Ints(<<<<1, 2>>, <<1, 3>>, <<2, 1>>, <<2, 3>>, <<3, 1>>, <<3, 2>>>>)

\* C8 (scenario 3): run(AND(member(X,[1,2,3]), member(Y,[1,2,3]),
\* different(X,Y))) with the goals passed as constructed producers yields
\* the six pairs in order; an AND of producers yields the Solutions the same
\* AND of callables yields.
C8_ProducerFormAND ==
    Exhausted =>
        /\ (query.goal.e = DistinctPairs("call") /\ Unbound(query.pre))
              => Seen = SixPairs
        /\ (query.goal.e.fn = "AND" /\ AllCall(query.goal.e))
              => Seen = Enumerate(query.pre, Call(WithLambdas(query.goal.e)))

NinePairs ==
    Ints(<<<<1, 1>>, <<1, 2>>, <<1, 3>>, <<2, 1>>, <<2, 2>>, <<2, 3>>,
           <<3, 1>>, <<3, 2>>, <<3, 3>>>>)

\* C9: an AND of nullary callables yields one success for every tuple of
\* successes of its goals, each goal started in the store the success of its
\* predecessor left, rightmost goal varying fastest; test_compose(X, Y)
\* yields the nine pairs (1,1), (1,2), ..., (3,3) in that order.
C9_LexicographicAND ==
    Exhausted =>
        /\ (query.goal.e = E_test_compose(X, Y) /\ Unbound(query.pre))
              => Seen = NinePairs
        /\ (query.goal.e.fn = "AND" /\ AllLam(query.goal.e))
              => Seen = Tuples(Engine(<<>>, query.pre, Var_counter, FALSE),
                               Bodies(query.goal.e), <<>>).seen

\* C9 witness: test_compose(X, Y) has been enumerated to its ninth Solution
C9_Witness ==
    Exhausted /\ query.goal.e = E_test_compose(X, Y) /\ Len(sols) = 9

\* C10 (P6, scenario 2): OR yields the successes of its branches in branch
\* order, each branch started with the bindings of the branches before it
\* undone; run(OR(unify(X,1), unify(X,2), unify(X,3))) yields X = 1, 2, 3.
C10_DisjunctionConcatenates ==
    (Exhausted /\ query.goal.e.fn = "OR") =>
        /\ Seen = Concatenation(query.pre, query.goal.e.args)
        /\ (query.goal.e \in {OneTwoThree(f) : f \in Forms} /\ Unbound(query.pre))
              => [j \in 1..Len(Seen) |-> Seen[j][1]] = <<IntT(1), IntT(2), IntT(3)>>

\* C11 (P5, conjunction identity): AND() yields exactly one success and
\* installs no binding; AND(g) yields the same Solutions as g; AND(g, succeed)
\* yields the same Solutions as g, whether g has zero, one or several
\* successes and whichever form the goals are passed in.
C11_ConjunctionIdentity ==
    (Exhausted /\ query.goal.e.fn = "AND") =>
        LET args == query.goal.e.args
        IN  /\ args = <<>> => Seen = <<XY(query.pre)>> /\ Restored
            /\ Len(args) = 1 => Seen = Enumerate(query.pre, args[1])
            /\ (Len(args) = 2 /\ args[2].e = E_succeed)
                  => Seen = Enumerate(query.pre, args[1])

\* C19 (P9, Solution snapshotting): every Solution the client holds keeps
\* returning, for every name, the value it returned when it was received,
\* whatever has happened to the original Vars since.
C19_SolutionSnapshot ==
    \A j \in 1..Len(sols) :
        /\ Solution_getattr(binding, sols[j].vars, "X") = sols[j].seen.X
        /\ Solution_getattr(binding, sols[j].vars, "Y") = sols[j].seen.Y

----------------------------------------------------------------------------
(* Properties of unification on structured terms (UnifierSpec) *)

\* the client holds a Solution and the producers are suspended at a success
AtSuccess == pc = "iterating" /\ sols # <<>>

UnifyQuery == query.op = "run" /\ query.goal.e.fn = "unify"

\* unify(a, b) started in store bnd yields a success
Succeeds(bnd, a, b) == Enumerate(bnd, Call(E_unify(a, b))) # <<>>

RECURSIVE Ground(_), NoRecords(_), KeysAgree(_, _), FullDeref(_, _)
RECURSIVE VarsIn(_, _), Reaches(_, _, _)

\* no Var occurs in t
Ground(t) ==
    CASE isVar(t) -> FALSE
      [] t.k \in {"list", "tuple"} -> \A j \in 1..Len(t.v) : Ground(t.v[j])
      [] t.k = "dict" -> \A j \in 1..Len(t.v) : Ground(t.v[j][2])
      [] OTHER -> TRUE

\* no record occurs in t
NoRecords(t) ==
    CASE t.k \in {"list", "tuple"} -> \A j \in 1..Len(t.v) : NoRecords(t.v[j])
      [] t.k = "dict" -> FALSE
      [] OTHER -> TRUE

Keys(d) == {d.v[j][1] : j \in 1..Len(d.v)}
Lookup(d, key) == d.v[CHOOSE j \in 1..Len(d.v) : d.v[j][1] = key][2]

\* wherever a record of s meets a record of t, the two have the same keys
KeysAgree(s, t) ==
    CASE s.k = "dict" /\ t.k = "dict" ->
            /\ Keys(s) = Keys(t)
            /\ \A key \in Keys(s) : KeysAgree(Lookup(s, key), Lookup(t, key))
      [] s.k \in {"list", "tuple"} /\ s.k = t.k /\ Len(s.v) = Len(t.v) ->
            \A j \in 1..Len(s.v) : KeysAgree(s.v[j], t.v[j])
      [] OTHER -> TRUE

\* t with every Var in it replaced by what it dereferences to
FullDeref(bnd, t) ==
    CASE isVar(t) ->
            IF is_bound(bnd, t.v) THEN FullDeref(bnd, bnd[t.v]) ELSE t
      [] t.k \in {"list", "tuple"} ->
            [t EXCEPT !.v = [j \in 1..Len(t.v) |-> FullDeref(bnd, t.v[j])]]
      [] t.k = "dict" ->
            [t EXCEPT !.v = [j \in 1..Len(t.v) |->
                                <<t.v[j][1], FullDeref(bnd, t.v[j][2])>>]]
      [] OTHER -> t

\* the Vars met from t by descending into containers and following at most
\* `fuel` bindings
Reaches(bnd, t, fuel) ==
    CASE isVar(t) ->
            {t.v} \cup (IF fuel > 0 /\ is_bound(bnd, t.v)
                        THEN Reaches(bnd, bnd[t.v], fuel - 1) ELSE {})
      [] t.k \in {"list", "tuple"} ->
            UNION {Reaches(bnd, t.v[j], fuel) : j \in 1..Len(t.v)}
      [] t.k = "dict" ->
            UNION {Reaches(bnd, t.v[j][2], fuel) : j \in 1..Len(t.v)}
      [] OTHER -> {}

\* the Vars reachable from t
VarsIn(bnd, t) == Reaches(bnd, t, Cardinality(DOMAIN bnd))

\* (I1) no Var is reachable from its own binding
Acyclic(bnd) ==
    \A v \in DOMAIN bnd : is_bound(bnd, v) => v \notin VarsIn(bnd, bnd[v])

\* the values of record a paired with the values of record b under a's keys
ValuePairs(a, b) == [j \in 1..Len(a.v) |-> <<a.v[j][2], Lookup(b, a.v[j][1])>>]

\* record b cut down to the keys of record a
Restrict(b, a) == DictT([j \in 1..Len(a.v) |-> <<a.v[j][1], Lookup(b, a.v[j][1])>>])

\* the first next() on unify(a, b) in store bnd
FirstStep(bnd, a, b) ==
    LET n == Construct(Engine(<<>>, bnd, Var_counter, FALSE), E_unify(a, b))
    IN  Resume(n.m, n.id)

\* C12 (scenario 1): for an unbound Var and a non-null, non-Var term t,
\* run(unify(X, t), X=X) yields exactly one Solution, in which X = t, and
\* once the sequence is exhausted X is unbound again.
C12_UnifyVarWithTerm ==
    \A name \in {"X", "Y"} :
        LET var == IF name = "X" THEN X ELSE Y
        IN  (UnifyQuery /\ query.goal.e.a = var /\ ~isVar(query.goal.e.b)
             /\ query.goal.e.b # None /\ ~is_bound(query.pre, var.v))
                => /\ Len(sols) <= 1
                   /\ sols # <<>> => sols[1].seen[name] = query.goal.e.b
                   /\ Exhausted => Len(sols) = 1 /\ ~is_bound(binding, var.v)

\* C12 witness: run(unify(X, [1, 2])) from unbound X has yielded its one
\* Solution and is exhausted
C12_Witness ==
    /\ Exhausted /\ query.goal.e = E_unify(X, ListT(<<IntT(1), IntT(2)>>))
    /\ ~is_bound(query.pre, 0) /\ Len(sols) = 1

\* C13: unify(a, b) and unify_all(pairs) yield at most one success, for
\* every pair of terms and every store.
C13_AtMostOneSuccess ==
    (query.op = "run" /\ query.goal.e.fn \in {"unify", "unify_all"})
        => Len(sols) <= 1

\* C13 witness: a unify_all of several pairs has succeeded and is exhausted
C13_Witness ==
    /\ Exhausted /\ query.goal.e.fn = "unify_all"
    /\ Len(query.goal.e.pairs) >= 2 /\ Len(sols) = 1

\* C14 (P4): at a success of unify(a, b), a and b are structurally equal
\* once every Var in them is fully dereferenced, and no Var has been bound
\* that is not reachable from a or b.  Stated for terms without records,
\* where record unification's tolerance of extra keys plays no part.
C14_ComputesUnifier ==
    (AtSuccess /\ UnifyQuery /\ Acyclic(binding)
     /\ NoRecords(query.goal.e.a) /\ NoRecords(query.goal.e.b))
        => /\ FullDeref(binding, query.goal.e.a) = FullDeref(binding, query.goal.e.b)
           /\ \A v \in DOMAIN query.pre :
                 binding[v] # query.pre[v]
                    => v \in VarsIn(query.pre, query.goal.e.a)
                             \cup VarsIn(query.pre, query.goal.e.b)

\* C15 (P3): for terms a, b without Vars, unify(a, b) yields a success iff
\* unify(b, a) does.
C15_GroundSymmetry ==
    (Exhausted /\ UnifyQuery /\ Ground(query.goal.e.a) /\ Ground(query.goal.e.b))
        => (sols # <<>> <=> Succeeds(query.pre, query.goal.e.b, query.goal.e.a))

\* C15, amended: for terms a, b without Vars in which every record that
\* meets a record has the same keys as it, unify(a, b) yields a success iff
\* unify(b, a) does.
C15_GroundSymmetrySameKeys ==
    (Exhausted /\ UnifyQuery /\ Ground(query.goal.e.a) /\ Ground(query.goal.e.b)
     /\ KeysAgree(query.goal.e.a, query.goal.e.b))
        => (sols # <<>> <=> Succeeds(query.pre, query.goal.e.b, query.goal.e.a))

\* C15 witness: two ground sequences that differ have been unified, without
\* success
C15_Witness ==
    /\ Exhausted /\ sols = <<>>
    /\ query.goal.e = E_unify(ListT(<<IntT(1), IntT(2)>>), ListT(<<IntT(1), IntT(1)>>))

\* C16: for records a (pattern) and b (subject), unify(a, b) yields a
\* success iff every key of a is a key of b and the values under those keys
\* all unify in sequence; the keys of b that a lacks change nothing; a key
\* of a that b lacks makes unify fail at once, with no binding installed.
C16_OneSidedRecords ==
    (Exhausted /\ UnifyQuery /\ query.goal.e.a.k = "dict" /\ query.goal.e.b.k = "dict")
        => LET a == query.goal.e.a
               b == query.goal.e.b
           IN  IF Keys(a) \subseteq Keys(b)
               THEN /\ sols # <<>> <=>
                          Enumerate(query.pre, Call(E_unify_all(ValuePairs(a, b)))) # <<>>
                    /\ Seen = Enumerate(query.pre, Call(E_unify(a, Restrict(b, a))))
               ELSE /\ sols = <<>>
                    /\ Restored
                    /\ LET r == FirstStep(query.pre, a, b)
                       IN  ~r.y /\ Len(r.m.gens) = 1 /\ r.m.binding = query.pre

\* C16 witness: the pattern {2: X} has been matched against {1: 1, 2: 2}
C16_Witness ==
    /\ Exhausted /\ Len(sols) = 1 /\ sols[1].seen.X = IntT(2)
    /\ query.goal.e = E_unify(DictT(<<<<IntT(2), X>>>>),
                              DictT(<<<<IntT(1), IntT(1)>>, <<IntT(2), IntT(2)>>>>))

\* a number on one side and a boolean on the other, directly or at the
\* same position of two one-element containers of the same kind
NumberMeetsBoolean(s, t) ==
    \/ {s.k, t.k} = {"int", "bool"}
    \/ /\ s.k \in {"list", "tuple"} /\ s.k = t.k /\ Len(s.v) = 1 /\ Len(t.v) = 1
       /\ {s.v[1].k, t.v[1].k} = {"int", "bool"}
    \/ /\ s.k = "dict" /\ t.k = "dict" /\ Len(s.v) = 1 /\ Len(t.v) = 1
       /\ s.v[1][1] = t.v[1][1]
       /\ {s.v[1][2].k, t.v[1][2].k} = {"int", "bool"}

\* C17: unify never succeeds on a number and a boolean: unify(0, False),
\* unify(False, 0), unify(1, True), unify(True, 1) yield no success, also
\* when the two scalars sit at the same position of two containers.
C17_StrictScalarEquality ==
    (UnifyQuery /\ NumberMeetsBoolean(query.goal.e.a, query.goal.e.b))
        => sols = <<>>

\* C18: in normal mode a unify or unify_all that is exhausted without a
\* success leaves every Var's binding as it was; unify([X, X], [1, 2])
\* yields no Solution; sequences or tuples of different length fail at the
\* first step, before any pair is unified.
C18_FailedUnifyRestores ==
    /\ (Exhausted /\ query.goal.e.fn \in {"unify", "unify_all"} /\ sols = <<>>)
          => Restored
    /\ (Exhausted /\ query.goal.e = E_unify(ListT(<<X, X>>), ListT(<<IntT(1), IntT(2)>>)))
          => sols = <<>> /\ Restored
    /\ (Exhausted /\ UnifyQuery
        /\ query.goal.e.a.k \in {"list", "tuple"} /\ query.goal.e.a.k = query.goal.e.b.k
        /\ Len(query.goal.e.a.v) # Len(query.goal.e.b.v))
          => /\ sols = <<>>
             /\ LET r == FirstStep(query.pre, query.goal.e.a, query.goal.e.b)
                IN  ~r.y /\ Len(r.m.gens) = 1 /\ r.m.binding = query.pre

\* C18 witness: run(unify([X, X], [1, 2])) from unbound X is exhausted
\* without a Solution
C18_Witness ==
    /\ Exhausted /\ sols = <<>> /\ ~is_bound(query.pre, 0)
    /\ query.goal.e = E_unify(ListT(<<X, X>>), ListT(<<IntT(1), IntT(2)>>))

\* C20: not_unifiable(a, b), and different(a, b), yields exactly one success
\* if unify(a, b) started in the same store yields none, and no success if
\* unify(a, b) yields one.
C20_NegationAsFailure ==
    (Exhausted /\ query.goal.e.fn \in {"not_unifiable", "different"})
        => Len(sols) = IF Succeeds(query.pre, query.goal.e.a, query.goal.e.b)
                       THEN 0 ELSE 1

\* C20 witness: not_unifiable([X, X], [1, 2]) has yielded its one success
C20_Witness ==
    /\ Exhausted /\ Len(sols) = 1
    /\ query.goal.e = E_not_unifiable(ListT(<<X, X>>), ListT(<<IntT(1), IntT(2)>>))

\* C27: whenever unify(X, t) yields a success for an unbound Var X and a
\* non-Var term t, then at that success X.is_bound() is true and X.deref()
\* returns t, for every host value t, None included.
C27_BindsAnyValue ==
    (AtSuccess /\ UnifyQuery /\ isVar(query.goal.e.a) /\ ~isVar(query.goal.e.b)
     /\ ~is_bound(query.pre, query.goal.e.a.v))
        => /\ is_bound(binding, query.goal.e.a.v)
           /\ deref(binding, query.goal.e.a.v) = query.goal.e.b

\* C23: for ground lists xs, ys and an unbound Var Z, append(xs, ys, Z)
\* yields exactly one success, at which Z fully dereferenced is xs ++ ys;
\* for ground xs, zs = xs ++ s and an unbound Y, append(xs, Y, zs) succeeds
\* with Y equal to the suffix s.
C23_AppendConcatenates ==
    LET e == query.goal.e
    IN  /\ (query.op = "run" /\ e.fn = "append" /\ e.c = X /\ ~is_bound(query.pre, 0))
              => /\ Len(sols) <= 1
                 /\ AtSuccess => FullDeref(binding, X) = ListT(e.a.v \o e.b.v)
                 /\ Exhausted => Len(sols) = 1
        /\ (query.op = "run" /\ e.fn = "append" /\ e.b = Y /\ ~is_bound(query.pre, 1))
              => /\ AtSuccess =>
                       FullDeref(binding, Y) = ListT(SubSeq(e.c.v, Len(e.a.v) + 1, Len(e.c.v)))
                 /\ Exhausted => Len(sols) >= 1

\* the producers in the heap made by calls fn(a, ...), in order of creation
Invoked(fn, a) == SelectSeq(gens, LAMBDA f : f.fn = fn /\ f.a = a)

\* C25: in AND(g1, ..., gn) a callable goal is not invoked when the AND is
\* constructed nor before its predecessor has yielded; it is invoked exactly
\* once for each success of the goals before it, just after that success, so
\* the producer it builds observes the bindings of that success.
C25_LazyInvocation ==
    LET e == query.goal.e
    IN  /\ (query.op = "run" /\ pc = "iterating" /\ sols = <<>>
             /\ e.fn = "AND" /\ AllLam(e))
              => \A j \in 1..Len(gens) : gens[j].fn \in {"run", "AND"}
        /\ (AtSuccess /\ e = LazyArg("lam") /\ Unbound(query.pre))
              => /\ [j \in 1..Len(Invoked("unify", Y)) |-> Invoked("unify", Y)[j].b]
                       = [j \in 1..Len(sols) |-> IntT(j)]
                 /\ Seen[Len(sols)] = <<IntT(Len(sols)), IntT(Len(sols))>>
        /\ (AtSuccess /\ e = DistinctPairs("lam") /\ Unbound(query.pre))
              => LET x == Seen[Len(sols)][1].v
                     y == Seen[Len(sols)][2].v
                 IN  /\ Len(Invoked("member", Y)) = x
                     /\ Len(Invoked("different", X)) = 3 * (x - 1) + y

\* C25 witness: the second Solution of AND(lambda: member(X, [1, ...]),
\* lambda: unify(Y, X.value)) has been received
C25_Witness ==
    /\ AtSuccess /\ query.goal.e = LazyArg("lam") /\ Unbound(query.pre)
    /\ Len(sols) = 2 /\ Len(Invoked("unify", Y)) = 2

\* the unbound Var at the end of the chain of Var a in store bnd, or the
\* scalar the chain ends in
Root(bnd, a) == Value(bnd, a)

\* C24: from a store with no bound Var, after any sequence of unify
\* successes, backtracks and commits over Vars and scalars no Var is
\* reachable from its own binding; a unify of two Vars whose chains end in
\* the same unbound Var - unify(X, X), unify(Y, X) while X is bound to Y -
\* succeeds once and installs no binding.
C24_NoVarCycles ==
    /\ Acyclic(binding)
    /\ \A v \in DOMAIN binding : binding[v] # VarT(v)
    /\ (query.op \in {"run", "once"} /\ query.goal.e.fn = "unify"
        /\ isVar(Root(query.pre, query.goal.e.a))
        /\ Root(query.pre, query.goal.e.a) = Root(query.pre, query.goal.e.b))
          => /\ binding = query.pre
             /\ query.op = "once" => query.result
             /\ query.op = "run" => Len(sols) <= 1 /\ (pc = "done" => Len(sols) = 1)

\* C24 witness: with X bound to Y and Y bound to W by committed queries,
\* unify(W, X) has succeeded
C24_Witness ==
    /\ query.op = "once" /\ pc = "done" /\ query.result
    /\ query.goal.e = E_unify(W, X)
    /\ query.pre[0] = Y /\ query.pre[1] = W /\ ~is_bound(query.pre, 2)

\* what thread u read for its own Var from the Solutions it received
OwnSeen(u) == [j \in 1..Len(sols[u]) |-> sols[u][j].seen[OwnName(u)]]

\* the values of thread u's Var in the normal enumeration of its query by a
\* single thread
OwnEnumerate(u) ==
    LET e == Enumerate(query[u].pre, query[u].goal)
    IN  [j \in 1..Len(e) |-> e[j][u]]

\* goals whose normal enumeration leaves no binding behind
Backtracking(e) == Exhaustive(e) \/ e.fn = "between"

\* C21: the commit flag is thread-local: a normal query run by one thread
\* on its own Var yields, step by step, the Solutions it yields when it runs
\* alone, and leaves the Var as it was when exhausted, whatever the other
\* thread does meanwhile, also while the other thread is inside once(g).
C21_ThreadLocalCommit ==
    \A u \in Threads :
        (query[u].op = "run" /\ Backtracking(query[u].goal.e))
            => /\ Len(sols[u]) <= Len(OwnEnumerate(u))
               /\ OwnSeen(u) = SubSeq(OwnEnumerate(u), 1, Len(sols[u]))
               /\ pc[u] = "done"
                     => /\ OwnSeen(u) = OwnEnumerate(u)
                        /\ binding[u - 1] = query[u].pre[u - 1]

\* C21 witness: thread 2 has enumerated both Solutions of
\* OR(unify(Y, 1), unify(Y, 2)) to exhaustion, all of it while thread 1
\* was inside once in commit mode
C21_Witness ==
    /\ pc[2] = "done" /\ query[2].op = "run" /\ query[2].state = "exhausted"
    /\ query[2].goal.e.fn = "OR" /\ Len(sols[2]) = 2
    /\ query[2].during = {1} /\ nq = 2
    /\ pc[1] = "leaving" /\ no_backtrack[1] /\ query[1].result

\* C26: once(g) leaves the calling thread's commit flag as it found it,
\* whether it returns true, returns false or propagates an exception of g:
\* outside once the flag is off, so normal queries backtrack; when a once
\* nested in the goal of another once has returned or raised, commit mode
\* is still on for the outer one.
C26_OnceRestoresFlag ==
    \A t \in Threads :
        /\ pc[t] \in {"idle", "iterating", "done"} => ~no_backtrack[t]
        /\ pc[t] \in {"entered", "leaving"} => no_backtrack[t]
        /\ (pc[t] = "done" /\ query[t].op = "once")
              => no_backtrack[t] = query[t].old_value

\* C26 witness: in thread 1 a goal running in commit mode has called once,
\* which returned true, and the outer once is about to return; in thread 2
\* once has propagated the TypeError that between(Y, 2, Y) raised
C26_Witness ==
    /\ pc[1] = "leaving" /\ no_backtrack[1]
    /\ query[1].goal.e.fn = "commit_then" /\ query[1].result
    /\ pc[2] = "done" /\ query[2].op = "once" /\ query[2].state = "raised"

\* C22: every Var receives an id that differs from the id of every other
\* Var and is larger than the id of every Var constructed before it, also
\* when the constructor steps of several threads interleave.
C22_UniqueIncreasingIds ==
    \A j \in 1..Len(binding) :
        /\ \A i \in 1..Len(binding) : i # j => binding[i].id # binding[j].id
        /\ \A i \in binding[j].before : binding[i].id < binding[j].id

====
